---- MODULE Spec2Model ----
(***************************************************************************)
(* The game state engine of GameBoard.vue: the reactive `state` object,   *)
(* the pure evaluators calculateWinner / isBoardFull, the computed values *)
(* currentPlayer / result, and the three event handlers handleCellClick,  *)
(* newRound and resetAll.  Each handler runs to completion (one action).  *)
(*                                                                         *)
(* Cells are the strings "" / "X" / "O" as in the source.  The board is a *)
(* function on 0..8 (a JavaScript array of length 9); reading it outside  *)
(* its index range yields Undefined, as a JavaScript array read does.     *)
(***************************************************************************)
EXTENDS Integers, Sequences, FiniteSets

VARIABLES
    board,        \* state.board
    xIsNext,      \* state.xIsNext
    scores,       \* state.scores : [X, O, draws]
    gameOver,     \* state.gameOver
    winningLine,  \* state.winningLine
    call,         \* history: the handler invocation that produced this state
    roundScores,  \* history: state.scores at the last round boundary
    roundFirst,   \* history: the player to move at the last round boundary
    inOrder       \* history: k when the session so far consists of the clicks
                  \* on 0, 1, .., k-1 in this order; OutOfOrder otherwise

vars ==
    <<board, xIsNext, scores, gameOver, winningLine, call, roundScores, roundFirst,
      inOrder>>

----------------------------------------------------------------------------
(* Bounds of the model. *)

\* Finished games per session: newRound is not taken once this many games
\* have been scored (resetAll still is).
MaxRounds == 2

\* How far beyond either end of the board the indices of the out-of-range
\* clicks examined lie.
MaxOutside == 3

----------------------------------------------------------------------------
(* Types and constants of the source. *)

BoardSize == 9
Indices == 0 .. (BoardSize - 1)
\* the indices a click may carry: the nine cells, and one index off each end
ClickIndices == (0 - 1) .. BoardSize

\* the value of inOrder once the session left the click order 0, 1, 2, ..
OutOfOrder == BoardSize + 1

Player == {"X", "O"}
Cell == Player \cup {""}
Null == "null"
Undefined == "undefined"

\* Array<Cell>(9).fill('')
emptyBoard == [i \in Indices |-> ""]

\* squares[i] of a JavaScript array
at(squares, i) == IF i \in DOMAIN squares THEN squares[i] ELSE Undefined

lines ==
    << <<0, 1, 2>>, <<3, 4, 5>>, <<6, 7, 8>>,
       <<0, 3, 6>>, <<1, 4, 7>>, <<2, 5, 8>>,
       <<0, 4, 8>>, <<2, 4, 6>> >>

\* the body of the for-loop of calculateWinner, from the k-th line on
RECURSIVE scanLines(_, _)
scanLines(squares, k) ==
    IF k > Len(lines)
    THEN [winner |-> Null, line |-> <<>>]
    ELSE LET a == lines[k][1]
             b == lines[k][2]
             c == lines[k][3]
         IN  IF squares[a] # "" /\ squares[a] = squares[b] /\ squares[a] = squares[c]
             THEN [winner |-> squares[a], line |-> <<a, b, c>>]
             ELSE scanLines(squares, k + 1)

\* the loop without its early return: the last matching line is reported
calculateWinner_lastMatch(squares) ==
    LET hits == {k \in DOMAIN lines :
                    /\ squares[lines[k][1]] # ""
                    /\ squares[lines[k][1]] = squares[lines[k][2]]
                    /\ squares[lines[k][1]] = squares[lines[k][3]]}
    IN  IF hits = {}
        THEN [winner |-> Null, line |-> <<>>]
        ELSE LET k == CHOOSE h \in hits : \A g \in hits : g <= h
             IN  [winner |-> squares[lines[k][1]], line |-> lines[k]]

calculateWinner(squares) == scanLines(squares, 1)

isBoardFull(squares) == \A i \in DOMAIN squares : squares[i] # ""

\* const state = reactive({...})
state0 ==
    [board |-> emptyBoard,
     xIsNext |-> TRUE,
     scores |-> [X |-> 0, O |-> 0, draws |-> 0],
     gameOver |-> FALSE,
     winningLine |-> <<>>]

currentPlayer == IF xIsNext THEN "X" ELSE "O"

\* result.value.status
result ==
    LET res == calculateWinner(board)
    IN  IF res.winner # Null
        THEN [status |-> "win", winner |-> res.winner, line |-> res.line]
        ELSE IF isBoardFull(board)
             THEN [status |-> "draw", winner |-> Null, line |-> <<>>]
             ELSE [status |-> "ongoing", winner |-> Null, line |-> <<>>]

----------------------------------------------------------------------------
(* The handlers. *)

\* The history record of an invocation: the handler, whether the index it was
\* given is one of the board (FALSE for the two buttons), the path it left
\* through, and state.gameOver / state.xIsNext as they were when it was invoked.
Invocation(fn, inside, exit) ==
    [fn |-> fn, inside |-> inside, exit |-> exit, over |-> gameOver, xNext |-> xIsNext]

\* the guard without its gameOver test
moveRejected_ignoresGameOver(index) == at(board, index) # ""

\* the guard without its occupancy test
moveRejected_ignoresOccupied(index) == index \notin DOMAIN board \/ gameOver

\* the guard with a truthiness test of the cell: undefined passes it
moveRejected_truthy(index) == at(board, index) \in Player \/ gameOver

\* if (state.board[index] !== '' || state.gameOver) return
moveRejected(index) == at(board, index) # "" \/ gameOver

\* state.board[index] = currentPlayer.value
markCell(index) == [board EXCEPT ![index] = currentPlayer]

\* the win credited to the player who did not move
winScores_opponent(winner) ==
    [scores EXCEPT ![IF winner = "X" THEN "O" ELSE "X"] = @ + 1]

\* state.scores[evalResult.winner] += 1
winScores(winner) == [scores EXCEPT ![winner] = @ + 1]

\* state.scores.draws += 1
drawScores == [scores EXCEPT !.draws = @ + 1]

\* the turn left where it was
toggled_stuck == xIsNext

\* state.xIsNext = !state.xIsNext
toggled == ~xIsNext

\* the full-board test made before the winner test
pathOf_drawFirst(squares) ==
    IF isBoardFull(squares) THEN "draw"
    ELSE IF calculateWinner(squares).winner # Null THEN "win"
    ELSE "next"

\* the full-board test left out
pathOf_noDraw(squares) ==
    IF calculateWinner(squares).winner # Null THEN "win" ELSE "next"

\* which of the three paths behind the guard a marked board takes
pathOf(squares) ==
    IF calculateWinner(squares).winner # Null THEN "win"
    ELSE IF isBoardFull(squares) THEN "draw"
    ELSE "next"

\* the state object, as a record of its five fields
cur ==
    [board |-> board, xIsNext |-> xIsNext, scores |-> scores,
     gameOver |-> gameOver, winningLine |-> winningLine]

\* function handleCellClick(index): the state object it leaves behind, and
\* the path it left through
clicked(index) ==
    IF moveRejected(index)
    THEN [state |-> cur, exit |-> "rejected"]
    ELSE LET squares == markCell(index)
             evalResult == calculateWinner(squares)
             path == pathOf(squares)
         IN  CASE path = "win" ->
                    [state |-> [cur EXCEPT !.board = squares,
                                           !.gameOver = TRUE,
                                           !.winningLine = evalResult.line,
                                           !.scores = winScores(evalResult.winner)],
                     exit |-> path]
               [] path = "draw" ->
                    [state |-> [cur EXCEPT !.board = squares,
                                           !.gameOver = TRUE,
                                           !.scores = drawScores],
                     exit |-> path]
               [] OTHER ->
                    [state |-> [cur EXCEPT !.board = squares,
                                           !.xIsNext = toggled],
                     exit |-> path]

\* the state object s is stored
Becomes(s) ==
    /\ board' = s.board
    /\ xIsNext' = s.xIsNext
    /\ scores' = s.scores
    /\ gameOver' = s.gameOver
    /\ winningLine' = s.winningLine

handleCellClick(index) ==
    LET done == clicked(index)
    IN  /\ Becomes(done.state)
        /\ call' = Invocation("handleCellClick", index \in DOMAIN board, done.exit)
        /\ UNCHANGED <<roundScores, roundFirst>>
        /\ inOrder' = IF index = inOrder /\ index \in Indices
                      THEN inOrder + 1
                      ELSE OutOfOrder

\* the first move passed to the other player at every newRound
newRoundXIsNext_alternates == ~xIsNext

\* every round started by X
newRoundXIsNext_alwaysX == TRUE

\* state.xIsNext = !state.gameOver ? state.xIsNext : true
newRoundXIsNext == IF ~gameOver THEN xIsNext ELSE TRUE

\* newRound clearing the scoreboard as resetAll does
roundStarted_clearsScores ==
    [cur EXCEPT !.board = emptyBoard,
                !.xIsNext = newRoundXIsNext,
                !.gameOver = FALSE,
                !.winningLine = <<>>,
                !.scores = [X |-> 0, O |-> 0, draws |-> 0]]

\* newRound without the reset of winningLine
roundStarted_keepsLine ==
    [cur EXCEPT !.board = emptyBoard,
                !.xIsNext = newRoundXIsNext,
                !.gameOver = FALSE]

\* function newRound(): the state object it leaves behind
roundStarted ==
    [cur EXCEPT !.board = emptyBoard,
                !.xIsNext = newRoundXIsNext,
                !.gameOver = FALSE,
                !.winningLine = <<>>]

newRound ==
    /\ scores.X + scores.O + scores.draws < MaxRounds
    /\ Becomes(roundStarted)
    /\ call' = Invocation("newRound", FALSE, "return")
    /\ roundScores' = scores'
    /\ roundFirst' = IF xIsNext' THEN "X" ELSE "O"
    /\ inOrder' = OutOfOrder

\* the draws counter left as it was
clearedScores_keepsDraws == [scores EXCEPT !.X = 0, !.O = 0]

\* state.scores.X = 0; state.scores.O = 0; state.scores.draws = 0
clearedScores == [scores EXCEPT !.X = 0, !.O = 0, !.draws = 0]

\* function resetAll(): the state object it leaves behind
allReset ==
    [cur EXCEPT !.board = emptyBoard,
                !.xIsNext = TRUE,
                !.gameOver = FALSE,
                !.winningLine = <<>>,
                !.scores = clearedScores]

resetAll ==
    /\ Becomes(allReset)
    /\ call' = Invocation("resetAll", FALSE, "return")
    /\ roundScores' = scores'
    /\ roundFirst' = IF xIsNext' THEN "X" ELSE "O"
    /\ inOrder' = OutOfOrder

Init ==
    /\ board = state0.board
    /\ xIsNext = state0.xIsNext
    /\ scores = state0.scores
    /\ gameOver = state0.gameOver
    /\ winningLine = state0.winningLine
    /\ call = [fn |-> "setup", inside |-> FALSE, exit |-> "return",
               over |-> FALSE, xNext |-> TRUE]
    /\ roundScores = state0.scores
    /\ roundFirst = "X"
    /\ inOrder = 0

Next ==
    \/ \E index \in ClickIndices : handleCellClick(index)
    \/ newRound
    \/ resetAll

Spec == Init /\ [][Next]_vars

----------------------------------------------------------------------------
(* The handlers as the template reaches them: a click on one of the nine    *)
(* cell buttons, on New Round unless it is disabled, on Reset All.          *)

\* New Round disabled for as long as the game is on
newRoundDisabled_untilOver == ~gameOver

\* :disabled="state.board.every(c => c === '')" of the New Round button
newRoundDisabled == \A i \in DOMAIN board : board[i] = ""

\* the Reset All button has no disabled binding
resetAllDisabled == FALSE

\* @click="handleCellClick(idx)" of a button of v-for="(cell, idx) in state.board"
cellClicked == \E idx \in DOMAIN board : handleCellClick(idx)

\* @click="newRound"; a disabled button dispatches no click
newRoundClicked == ~newRoundDisabled /\ newRound

\* @click="resetAll"
resetAllClicked == ~resetAllDisabled /\ resetAll

NextUI ==
    \/ cellClicked
    \/ newRoundClicked
    \/ resetAllClicked

SpecUI == Init /\ [][NextUI]_vars

----------------------------------------------------------------------------
(* calculateWinner on its own: any array of nine cells is given to it and   *)
(* what it returns is recorded.                                             *)

InitEvaluator ==
    /\ board \in [Indices -> Cell]
    /\ xIsNext = state0.xIsNext
    /\ scores = state0.scores
    /\ gameOver = state0.gameOver
    /\ winningLine = state0.winningLine
    /\ call = [fn |-> "setup", winner |-> Null, line |-> <<>>]
    /\ roundScores = state0.scores
    /\ roundFirst = "X"
    /\ inOrder = OutOfOrder

evaluate ==
    LET res == calculateWinner(board)
    IN  /\ call' = [fn |-> "calculateWinner", winner |-> res.winner, line |-> res.line]
        /\ UNCHANGED <<board, xIsNext, scores, gameOver, winningLine,
                       roundScores, roundFirst, inOrder>>

SpecEvaluator == InitEvaluator /\ [][evaluate]_vars

----------------------------------------------------------------------------
(* Vocabulary of the properties. *)

Marks(b) == Cardinality({i \in Indices : b[i] # ""})

Total(sc) == sc.X + sc.O + sc.draws

\* line l (three indices) holds three equal marks on b
Filled(b, l) == b[l[1]] # "" /\ b[l[1]] = b[l[2]] /\ b[l[1]] = b[l[3]]

FilledLines(b) == {k \in DOMAIN lines : Filled(b, lines[k])}

NoEmptyCell(b) == \A i \in Indices : b[i] # ""

Mover == IF xIsNext THEN "X" ELSE "O"

\* the board with the mover's mark written at cell i
Placed(i) == [j \in Indices |-> IF j = i THEN Mover ELSE board[j]]

\* a click on cell i that the guard lets through
Accepted(i) == at(board, i) = "" /\ ~gameOver

----------------------------------------------------------------------------
(* The handlers' contracts: what each handler leaves behind when invoked  *)
(* in a reachable state.                                                   *)

\* C1: a click on an occupied cell, or a click made when the game is over
\* (gameOver set, or the status derived from the board not "ongoing"),
\* changes none of board, xIsNext, scores, gameOver, winningLine.
C1_RejectedMoveIsNoOp ==
    LET over == gameOver \/ result.status # "ongoing"
    IN  \A i \in Indices :
        (board[i] # "" \/ over)
        => LET after == clicked(i).state
           IN  /\ after.board = board
               /\ after.xIsNext = xIsNext
               /\ after.scores = scores
               /\ after.gameOver = gameOver
               /\ after.winningLine = winningLine

\* Scenario 3: click 0, click 0 again; the second click was rejected on a cell
\* holding X, and O is still to move.
C1_Witness ==
    /\ call.fn = "handleCellClick" /\ call.exit = "rejected" /\ call.inside
    /\ board = [i \in Indices |-> IF i = 0 THEN "X" ELSE ""]
    /\ ~xIsNext /\ ~gameOver

\* C2: an accepted click that completes a line ends the game, stores the line
\* calculateWinner returns, credits the mover with exactly one point, leaves
\* the other two counters alone and does not pass the turn.
C2_WinningMove ==
    \A i \in Indices :
        (Accepted(i) /\ FilledLines(Placed(i)) # {})
        => LET after == clicked(i).state
           IN  /\ after.board = Placed(i)
               /\ after.gameOver
               /\ after.winningLine = calculateWinner(after.board).line
               /\ Len(after.winningLine) = 3
               /\ Filled(after.board, after.winningLine)
               /\ after.scores = [scores EXCEPT ![Mover] = @ + 1]
               /\ after.xIsNext = xIsNext

\* Scenario 1: the moves 0,4,1,5,2 of a fresh session end in a win of X on
\* the top row with scores 1/0/0.
C2_Witness ==
    /\ call.fn = "handleCellClick" /\ call.exit = "win"
    /\ board = [i \in Indices |->
                  IF i \in {0, 1, 2} THEN "X" ELSE IF i \in {4, 5} THEN "O" ELSE ""]
    /\ result.status = "win" /\ result.winner = "X"
    /\ gameOver /\ xIsNext
    /\ winningLine = <<0, 1, 2>>
    /\ scores = [X |-> 1, O |-> 0, draws |-> 0]

\* C3: an accepted click that fills the last empty cell without completing a
\* line ends the game as a draw: winningLine stays empty, draws goes up by
\* one, X and O keep their scores.  When the same click also completes a line
\* it counts as the mover's win and draws is untouched.
C3_DrawingMove ==
    \A i \in Indices :
        (Accepted(i) /\ NoEmptyCell(Placed(i)))
        => LET after == clicked(i).state
           IN  /\ after.board = Placed(i)
               /\ after.gameOver
               /\ IF FilledLines(Placed(i)) = {}
                  THEN /\ after.winningLine = <<>>
                       /\ after.scores = [scores EXCEPT !.draws = @ + 1]
                  ELSE /\ after.winningLine # <<>>
                       /\ after.scores = [scores EXCEPT ![Mover] = @ + 1]

\* a ninth mark that drew the game, the round's only score
C3_Witness ==
    /\ call.fn = "handleCellClick" /\ call.exit = "draw" /\ call.inside
    /\ NoEmptyCell(board) /\ FilledLines(board) = {}
    /\ gameOver /\ winningLine = <<>>
    /\ scores = [roundScores EXCEPT !.draws = @ + 1]

\* C4: an accepted click that neither completes a line nor fills the board
\* writes the mover's mark at the cell, passes the turn and changes nothing
\* else; and no other click (rejected, winning, drawing, out of range)
\* changes the turn.
C4_NonTerminalMove ==
    \A i \in ClickIndices :
        LET after == clicked(i).state
        IN  IF /\ Accepted(i)
               /\ \E j \in Indices : j # i /\ board[j] = ""
               /\ FilledLines(Placed(i)) = {}
            THEN /\ after.board = Placed(i)
                 /\ after.xIsNext = ~xIsNext
                 /\ after.scores = scores
                 /\ after.gameOver = FALSE /\ gameOver = FALSE
                 /\ after.winningLine = <<>> /\ winningLine = <<>>
            ELSE after.xIsNext = xIsNext

\* O's mark was just placed in mid-game and the turn went back to X
C4_Witness ==
    /\ call.fn = "handleCellClick" /\ call.exit = "next" /\ ~call.xNext
    /\ xIsNext /\ ~gameOver /\ winningLine = <<>>
    /\ Marks(board) = 4
    /\ scores = roundScores

\* C5: newRound clears the nine cells, gameOver and winningLine and keeps the
\* three scores; X is to move afterwards if the game was over, otherwise
\* whoever was to move still is.
C5_NewRound ==
    LET after == roundStarted
    IN  /\ \A i \in Indices : after.board[i] = ""
        /\ DOMAIN after.board = Indices
        /\ after.gameOver = FALSE
        /\ after.winningLine = <<>>
        /\ after.scores = scores
        /\ after.xIsNext = (IF gameOver THEN TRUE ELSE xIsNext)

\* Scenario 4 with O as the winner: newRound was invoked in a finished game
\* with O active; the board is clear, X is to move, O keeps its point.
C5_Witness ==
    /\ call.fn = "newRound" /\ call.over /\ ~call.xNext
    /\ board = emptyBoard /\ xIsNext /\ ~gameOver /\ winningLine = <<>>
    /\ scores = [X |-> 0, O |-> 1, draws |-> 0]

\* C6: resetAll leaves exactly the state object a fresh session starts with.
C6_ResetAll ==
    /\ allReset = state0
    /\ \A i \in Indices : allReset.board[i] = ""
    /\ allReset.xIsNext = TRUE
    /\ allReset.gameOver = FALSE
    /\ allReset.winningLine = <<>>
    /\ allReset.scores = [X |-> 0, O |-> 0, draws |-> 0]

\* resetAll was invoked in a finished game (so with a point on the
\* scoreboard) in which O was active
C6_Witness ==
    /\ call.fn = "resetAll" /\ call.over /\ ~call.xNext
    /\ cur = state0

----------------------------------------------------------------------------
(* Invariants of the reachable states. *)

\* C7: gameOver is set exactly when the status derived from the board is win
\* or draw, and winningLine is the line calculateWinner returns for the board
\* (empty exactly when no line is filled).
C7_CachedStateConsistent ==
    /\ gameOver <=> result.status \in {"win", "draw"}
    /\ winningLine = calculateWinner(board).line
    /\ winningLine = <<>> <=> FilledLines(board) = {}

\* a full board without a line: the status is draw, gameOver is set and
\* winningLine is empty
C7_Witness ==
    /\ result.status = "draw" /\ gameOver /\ winningLine = <<>>
    /\ NoEmptyCell(board)

\* C8: since the last round boundary the three counters together went up by
\* one if the game is over and by nothing otherwise, at most one counter
\* moved, and no click made after the end of the game moves a counter.
C8_ScoredOncePerRound ==
    /\ Total(scores) - Total(roundScores) = (IF gameOver THEN 1 ELSE 0)
    /\ Cardinality({k \in DOMAIN scores : scores[k] # roundScores[k]}) <= 1
    /\ \A k \in DOMAIN scores : scores[k] >= roundScores[k]
    /\ gameOver => \A i \in ClickIndices : clicked(i).state.scores = scores

\* a click on an empty cell after the end of the session's second game: the
\* round still counts one point
C8_Witness ==
    /\ call.fn = "handleCellClick" /\ call.exit = "rejected" /\ call.inside
    /\ gameOver
    /\ Total(roundScores) = 1 /\ Total(scores) = 2

\* C9 as stated: the active player is X whenever the number of marks is even.
C9_XWhenMarksEven ==
    Marks(board) % 2 = 0 => currentPlayer = "X"

\* C9, amended: while the game is not over, the active player is the player
\* who was to move at the start of the round exactly when the number of marks
\* is even.
C9_StarterWhenMarksEven ==
    ~gameOver => (currentPlayer = roundFirst <=> Marks(board) % 2 = 0)

\* a round that O began (newRound in mid-game with O to move), two marks in
\* and O to move again
C9_Witness ==
    /\ roundFirst = "O" /\ ~gameOver
    /\ Marks(board) = 2 /\ currentPlayer = "O"
    /\ call.fn = "handleCellClick" /\ call.exit = "next"

\* C10 as stated: never are two different lines filled at the same time.
C10_AtMostOneLine ==
    Cardinality(FilledLines(board)) <= 1

\* C10, amended: at most two lines are filled at the same time, and when two
\* are, the game is over, both hold the mark of the player who moved last and
\* they cross in one cell.
C10_TwoLinesOneMove ==
    /\ Cardinality(FilledLines(board)) <= 2
    /\ \A k, l \in FilledLines(board) :
          k # l => /\ gameOver
                   /\ board[lines[k][1]] = board[lines[l][1]]
                   /\ board[lines[k][1]] = currentPlayer
                   /\ Cardinality({lines[k][n] : n \in 1..3}
                                    \cap {lines[l][n] : n \in 1..3}) = 1

\* X's fifth mark, in the centre, filled both diagonals at once
C10_Witness ==
    /\ call.fn = "handleCellClick" /\ call.exit = "win"
    /\ FilledLines(board) = {7, 8}
    /\ winningLine = <<0, 4, 8>>
    /\ board[4] = "X"

----------------------------------------------------------------------------
(* Scenario 2. *)

\* the first k cells marked X, O, X, .. in index order, the others empty
AlternatingPrefix(k) ==
    [i \in Indices |-> IF i >= k THEN "" ELSE IF i % 2 = 0 THEN "X" ELSE "O"]

\* C11 as stated: the clicks on 0,1,..,8 of a fresh session never fill a
\* line and end with the board X,O,X,O,X,O,O,X,O, status draw and scores
\* 0/0/1.
C11_IndexOrderDraws ==
    /\ inOrder \in 0 .. BoardSize => FilledLines(board) = {}
    /\ inOrder = BoardSize
         => /\ board = [i \in Indices |-> IF i \in {0, 2, 4, 7} THEN "X" ELSE "O"]
            /\ result.status = "draw"
            /\ scores = [X |-> 0, O |-> 0, draws |-> 1]

\* C11, amended: the first six of these clicks place X,O,X,O,X,O without a
\* line; the seventh puts X on cell 6 and fills <<2,4,6>>: the status is win,
\* the winner X, the scores 1/0/0; the clicks on 7 and 8 are rejected and
\* leave that state as it is.
C11_IndexOrderXWins ==
    /\ inOrder \in 0 .. 6
         => /\ board = AlternatingPrefix(inOrder)
            /\ FilledLines(board) = {}
            /\ result.status = "ongoing" /\ ~gameOver
            /\ scores = [X |-> 0, O |-> 0, draws |-> 0]
    /\ inOrder \in 7 .. BoardSize
         => /\ board = AlternatingPrefix(7)
            /\ result.status = "win" /\ result.winner = "X"
            /\ gameOver /\ winningLine = <<2, 4, 6>>
            /\ scores = [X |-> 1, O |-> 0, draws |-> 0]
    /\ inOrder \in 8 .. BoardSize
         => call.fn = "handleCellClick" /\ call.exit = "rejected"

\* all nine clicks made: the last one, on cell 8, was rejected in the game X
\* had won
C11_Witness ==
    /\ inOrder = BoardSize
    /\ call.fn = "handleCellClick" /\ call.exit = "rejected" /\ call.inside
    /\ board[6] = "X" /\ board[7] = "" /\ board[8] = ""
    /\ gameOver

----------------------------------------------------------------------------
(* Further invariants of the reachable states. *)

\* C12: winningLine is empty, or it is one of the eight lines, its three
\* indices in the listed order, and its three cells hold one mark.
C12_WinningLineWellFormed ==
    \/ winningLine = <<>>
    \/ /\ Len(winningLine) = 3
       /\ \A n \in 1..3 : winningLine[n] \in Indices
       /\ \E k \in DOMAIN lines : winningLine = lines[k]
       /\ board[winningLine[1]] \in Player
       /\ board[winningLine[1]] = board[winningLine[2]]
       /\ board[winningLine[1]] = board[winningLine[3]]

\* O has won on the right column
C12_Witness ==
    /\ winningLine = <<2, 5, 8>>
    /\ board[2] = "O" /\ board[5] = "O" /\ board[8] = "O"
    /\ gameOver

\* C14: with fewer than five marks on the board calculateWinner reports no
\* winner, gameOver is false and winningLine is empty, whoever began the
\* round.
C14_NoEarlyWinner ==
    Marks(board) < 5
    => /\ calculateWinner(board).winner = Null
       /\ FilledLines(board) = {}
       /\ result.status = "ongoing"
       /\ ~gameOver
       /\ winningLine = <<>>

\* four marks in a round that O began
C14_Witness ==
    /\ Marks(board) = 4 /\ roundFirst = "O"
    /\ call.fn = "handleCellClick" /\ call.exit = "next"
    /\ ~gameOver

\* C15: no click and no newRound lowers any of the three counters, whatever
\* the state it is made in; resetAll sets all three to 0.
C15_ScoresMonotone ==
    /\ \A i \in ClickIndices :
          LET after == clicked(i).state.scores
          IN  \A k \in DOMAIN scores : after[k] >= scores[k]
    /\ \A k \in DOMAIN scores :
          /\ roundStarted.scores[k] >= scores[k]
          /\ allReset.scores[k] = 0
    /\ DOMAIN scores = {"X", "O", "draws"}

\* the second game of a session was just won: one counter went up, the point
\* of the first game is still there
C15_Witness ==
    /\ call.fn = "handleCellClick" /\ call.exit = "win"
    /\ Total(roundScores) = 1 /\ Total(scores) = 2
    /\ \A k \in DOMAIN scores : scores[k] >= roundScores[k]

\* C16: no click empties a marked cell or changes its mark, and the board
\* keeps its nine cells.
C16_MarksPermanent ==
    \A i \in ClickIndices :
        LET after == clicked(i).state.board
        IN  /\ DOMAIN after = Indices
            /\ \A j \in Indices : board[j] # "" => after[j] = board[j]

\* a click on a marked cell was rejected in mid-game
C16_Witness ==
    /\ call.fn = "handleCellClick" /\ call.exit = "rejected"
    /\ call.inside
    /\ ~gameOver /\ Marks(board) = 3

\* C17: in a fresh state, and so in every state resetAll leaves, newRound
\* and resetAll both change nothing: resetAll followed by newRound, and
\* resetAll followed by resetAll, end in the one state with the board empty,
\* X to move, status ongoing, winningLine empty and the scores zero.
C17_ResetThenNewRound ==
    /\ call.fn = "resetAll" => cur = state0
    /\ cur = state0
         => /\ roundStarted = cur
            /\ allReset = cur
            /\ result.status = "ongoing"

\* newRound was invoked in a fresh state and left it fresh
C17_Witness ==
    /\ call.fn = "newRound" /\ ~call.over /\ call.xNext
    /\ cur = state0
    /\ result.status = "ongoing"

\* the integers outside 0..8 that lie at most MaxOutside beyond an end
OutsideIndices ==
    ((0 - MaxOutside) .. (BoardSize - 1 + MaxOutside)) \ Indices

\* C18: a click with an index outside 0..8 is rejected and changes none of
\* board (nine cells still), xIsNext, scores, gameOver, winningLine.
C18_OutOfRangeRejected ==
    \A i \in OutsideIndices :
        LET done == clicked(i)
        IN  /\ done.exit = "rejected"
            /\ done.state = cur
            /\ DOMAIN done.state.board = Indices

\* a click outside the board was rejected in mid-game
C18_Witness ==
    /\ call.fn = "handleCellClick" /\ call.exit = "rejected"
    /\ ~call.inside
    /\ ~gameOver /\ Marks(board) = 3

\* C19: while the game is not over some cell is empty and a click on it is
\* accepted; every accepted click adds exactly one mark; the board never
\* holds more than nine marks and with nine the game is over.  So a round in
\* which clicks on empty cells go on is over after at most nine of them.
C19_RoundTerminates ==
    /\ ~gameOver
         => \E i \in Indices : board[i] = "" /\ clicked(i).exit # "rejected"
    /\ \A i \in ClickIndices :
          LET done == clicked(i)
          IN  IF done.exit = "rejected"
              THEN Marks(done.state.board) = Marks(board)
              ELSE /\ Marks(done.state.board) = Marks(board) + 1
                   /\ board[i] = ""
    /\ Marks(board) <= BoardSize
    /\ Marks(board) = BoardSize => gameOver
    /\ Marks(roundStarted.board) = 0 /\ Marks(allReset.board) = 0

\* the ninth accepted click of a round ended it
C19_Witness ==
    /\ call.fn = "handleCellClick" /\ call.exit \in {"win", "draw"}
    /\ call.inside
    /\ Marks(board) = BoardSize
    /\ gameOver

\* the number of cells of b holding mark p
Count(b, p) == Cardinality({i \in Indices : b[i] = p})

\* C20: the numbers of X and of O on the board differ by at most one, and
\* while the game is not over the player to move has no more marks on the
\* board than the opponent.
C20_MarksBalanced ==
    LET x == Count(board, "X")
        o == Count(board, "O")
    IN  /\ x - o \in {0 - 1, 0, 1}
        /\ ~gameOver => IF xIsNext THEN x <= o ELSE o <= x

\* a round that O began: O is one mark ahead and X is to move
C20_Witness ==
    /\ roundFirst = "O" /\ ~gameOver /\ xIsNext
    /\ Count(board, "O") = 3 /\ Count(board, "X") = 2

\* the opponent of player p
Other(p) == IF p = "X" THEN "O" ELSE "X"

\* C21: whenever the board holds a filled line the active player is the
\* winner that calculateWinner reports; whenever the board is full without a
\* filled line the active player is the one who placed the last mark: the
\* one with more marks on the board, and the mover of the drawing click.  A
\* click that ends the game writes the mover's mark and leaves the turn with
\* the mover.
C21_ActivePlayerIsWinner ==
    /\ result.status = "win" => currentPlayer = result.winner
    /\ result.status = "draw"
         => Count(board, currentPlayer) > Count(board, Other(currentPlayer))
    /\ (call.fn = "handleCellClick" /\ call.exit \in {"win", "draw"})
         => /\ xIsNext = call.xNext
            /\ result.status = call.exit
    /\ \A i \in Indices :
          LET done == clicked(i)
          IN  done.exit \in {"win", "draw"}
              => /\ done.state.xIsNext = xIsNext
                 /\ done.state.board[i] = currentPlayer

\* O has won and is still the active player after a later, rejected click
C21_Witness ==
    /\ result.status = "win" /\ result.winner = "O"
    /\ currentPlayer = "O"
    /\ call.fn = "handleCellClick" /\ call.exit = "rejected"
    /\ gameOver

\* C22: New Round is enabled exactly when some cell is marked, so a click on
\* it is never taken on an empty board and is taken on every marked board
\* (while fewer than MaxRounds rounds are scored); right after newRound the
\* board is empty and New Round is disabled, so newRound does not run twice
\* without a move in between.  Reset All is enabled, and a click on it is
\* taken, in every state.
C22_NewRoundNeedsAMark ==
    /\ ~newRoundDisabled <=> Marks(board) > 0
    /\ (ENABLED newRoundClicked) => Marks(board) > 0
    /\ (Marks(board) > 0 /\ Total(scores) < MaxRounds) => ENABLED newRoundClicked
    /\ call.fn = "newRound"
         => /\ Marks(board) = 0
            /\ newRoundDisabled
            /\ ~ENABLED newRoundClicked
    /\ ~resetAllDisabled
    /\ ENABLED resetAllClicked

\* New Round was clicked after a round O won; it is disabled now
C22_Witness ==
    /\ call.fn = "newRound" /\ call.over /\ ~call.xNext
    /\ roundScores = [X |-> 0, O |-> 1, draws |-> 0]
    /\ Marks(board) = 0
    /\ newRoundDisabled
    /\ ~ENABLED newRoundClicked

----------------------------------------------------------------------------
(* The evaluator, over all arrays of nine cells. *)

\* C13: for every array of nine cells calculateWinner returns the first of
\* the eight lines, in the listed order, whose cells hold one mark, with that
\* mark as winner; it returns no winner and an empty line exactly when no
\* line is filled.
C13_FirstFilledLine ==
    call.fn = "calculateWinner"
    => LET filled == FilledLines(board)
       IN  IF filled = {}
           THEN call.winner = Null /\ call.line = <<>>
           ELSE LET first == CHOOSE k \in filled : \A l \in filled : k <= l
                IN  /\ call.line = lines[first]
                    /\ call.winner = board[lines[first][1]]
                    /\ call.winner \in Player

\* a board no play reaches: X fills the top row and O the bottom row; the
\* top row, listed first, is returned
C13_Witness ==
    /\ call.fn = "calculateWinner"
    /\ board = [i \in Indices |->
                  IF i \in {0, 1, 2} THEN "X" ELSE IF i \in {6, 7, 8} THEN "O" ELSE ""]
    /\ FilledLines(board) = {1, 3}
    /\ call.winner = "X" /\ call.line = <<0, 1, 2>>

====
